---- MODULE Spec2Model ----
(***************************************************************************)
(* NeuralBackground: the particle flow-field engine that one run of the    *)
(* component's effect creates (its closure: width, height, particles,      *)
(* animationFrameId, mouse), the host objects it talks to (the frame       *)
(* callback queue, the window/container listener lists, the container's    *)
(* measured size) and React's mount / re-render / unmount of the effect.   *)
(*                                                                         *)
(* Numbers.  JavaScript numbers are modelled as fixed-point integers:      *)
(* a length, position, velocity or lifespan v is the integer v * Scale,    *)
(* and every operation truncates toward zero (Fix).  Angles are in         *)
(* milliradians and sines/cosines in thousandths.  Math.random()           *)
(* is a choice of a fraction num/RandDen with num in a small set.          *)
(***************************************************************************)
EXTENDS Integers, Sequences, FiniteSets, TLC

\* ------------------------------------------------------------------ bounds
\* fixed-point resolution: 1 pixel = Scale units
Scale == 20
\* Math.random() returns num / RandDen
RandDen == 16
\* slots for effect closures that are still referenced (1 suffices for the
\* program as written; more are reachable only if a teardown leaks)
MaxInst == 2
\* frame-callback ids that can be pending at once
MaxFrames == 3
\* Spec: a frame fires only while every particle is younger than this
MaxAge == 3
\* SpecLife: pointer events occur only while every particle is younger than this
MaxEventAge == 2
\* SpecRun: the same limit there (the pointer acts on a pool just initialised)
MaxRunEventAge == 1
\* SpecWrap: a frame fires only while every particle is younger than this
MaxWrapAge == 10

\* the values (numerators) Math.random() returns to the three calls of a
\* constructor or reset: for x, for y and for life
RandomSet == {[x |-> 0, y |-> 0, life |-> 0], [x |-> 9, y |-> 4, life |-> 15]}
RandomSetLife == {[x |-> 0, y |-> 0, life |-> 0], [x |-> 9, y |-> 4, life |-> 1],
                  [x |-> 15, y |-> 15, life |-> 15]}
\* SpecPool: all lives are the shortest one
RandomSetPool == {[x |-> 0, y |-> 0, life |-> 0], [x |-> 9, y |-> 4, life |-> 0]}
\* measured sizes <<clientWidth, clientHeight>> of the container, in pixels
DimSet == {<<200, 100>>, <<320, 200>>}
\* SpecWrap: a container of 2 x 2 pixels, which a pushed particle crosses in
\* one tick, and a large one to shrink from
WrapDimSet == {<<2, 2>>, <<200, 100>>}
\* pointer positions <<clientX, clientY>> and surface origins <<left, top>>
ClientSet == {<<10, 10>>, <<160, 10>>}
OriginSet == {<<0, 0>>, <<10, 10>>}
\* what the environment offers: the two refs (canvas and container elements),
\* a 2D context, requestAnimationFrame, and the value of window.devicePixelRatio
HostSet == {[refs |-> TRUE, ctx |-> TRUE, raf |-> TRUE, dpr |-> 2],
            [refs |-> TRUE, ctx |-> TRUE, raf |-> TRUE, dpr |-> 0],
            [refs |-> FALSE, ctx |-> TRUE, raf |-> TRUE, dpr |-> 2],
            [refs |-> TRUE, ctx |-> FALSE, raf |-> TRUE, dpr |-> 2],
            [refs |-> TRUE, ctx |-> TRUE, raf |-> FALSE, dpr |-> 2]}
\* configuration values of the props
CountSet == {1, 2}
SpeedSet == {0, 1}
ColorSet == {"#6366f1"}
\* trailOpacity in hundredths
TrailSet == {15}
\* SpecConfig: the configurations above, and one more color and one more
\* trailOpacity for a single particle at speed 0
ConfigSet ==
    [color : ColorSet, trailOpacity : TrailSet, particleCount : CountSet, speed : SpeedSet]
    \cup {[color |-> "#ffffff", trailOpacity |-> 15, particleCount |-> 1, speed |-> 0],
          [color |-> "#6366f1", trailOpacity |-> 30, particleCount |-> 1, speed |-> 0]}

\* ------------------------------------------------------- program constants
\* Math.PI in milliradians
PiMilli == 3142
interactionRadius == 150
SentinelCoord == -1000
LifeBase == 100
LifeSpread == 200

\* ------------------------------------------------------------- arithmetic
\* a / b truncated toward zero
Fix(a, b) == IF a >= 0 THEN a \div b ELSE -((-a) \div b)

Abs(a) == IF a < 0 THEN -a ELSE a

RECURSIVE SqrtIter(_, _, _)
SqrtIter(n, lo, hi) ==
    IF lo >= hi THEN lo
    ELSE LET mid == (lo + hi + 1) \div 2
         IN  IF mid * mid <= n THEN SqrtIter(n, mid, hi)
                               ELSE SqrtIter(n, lo, mid - 1)

\* Math.sqrt, rounded down to the fixed-point grid
Sqrt(n) == SqrtIter(n, 0, 46340)

\* Math.sin on [0, pi] milliradians, in thousandths (Bhaskara's rational form)
SinHalf(t) ==
    LET q == t * (PiMilli - t)
    IN  (16 * q) \div ((5 * PiMilli * PiMilli - 4 * q) \div 1000)

\* Math.sin of an angle in milliradians, in thousandths
Sin(t) ==
    LET r == t % (2 * PiMilli)
    IN  IF r <= PiMilli THEN SinHalf(r) ELSE -SinHalf(r - PiMilli)

\* Math.cos of an angle in milliradians, in thousandths
Cos(t) == Sin(t + (PiMilli \div 2))

\* ---------------------------------------------------------------- Particle
\* a sentinel only 100 pixels off the surface's corner
SentinelNear == [x |-> -100 * Scale, y |-> -100 * Scale]

\* { x: -1000, y: -1000 }
Sentinel == [x |-> SentinelCoord * Scale, y |-> SentinelCoord * Scale]

\* Math.random() * dim
RandomCoord(r, dim) == Fix(r * dim * Scale, RandDen)

\* Math.random() * 200 + 50: a lower floor
RandomLifeLowFloor(r) == Fix(r * LifeSpread * Scale, RandDen) + (LifeBase \div 2) * Scale

\* Math.random() * 200 + 100
RandomLife(r) == Fix(r * LifeSpread * Scale, RandDen) + LifeBase * Scale

\* new Particle()
Particle(width, height, d) ==
    [x |-> RandomCoord(d.x, width), y |-> RandomCoord(d.y, height),
     vx |-> 0, vy |-> 0, age |-> 0, life |-> RandomLife(d.life)]

\* reset() without "this.age = 0"
resetKeepsAge(p, width, height, d) ==
    [x |-> RandomCoord(d.x, width), y |-> RandomCoord(d.y, height),
     vx |-> 0, vy |-> 0, age |-> p.age, life |-> RandomLife(d.life)]

\* reset() without "this.vx = 0; this.vy = 0"
resetKeepsVelocity(p, width, height, d) ==
    [x |-> RandomCoord(d.x, width), y |-> RandomCoord(d.y, height),
     vx |-> p.vx, vy |-> p.vy, age |-> 0, life |-> RandomLife(d.life)]

\* Particle.reset()
reset(p, width, height, d) ==
    [x |-> RandomCoord(d.x, width), y |-> RandomCoord(d.y, height),
     vx |-> 0, vy |-> 0, age |-> 0, life |-> RandomLife(d.life)]

\* (Math.cos(x * 0.005) + Math.sin(y * 0.005)) * Math.PI, in milliradians
fieldAngle(x, y) ==
    Fix((Cos(Fix(x * 5, Scale)) + Sin(Fix(y * 5, Scale))) * PiMilli, 1000)

\* Math.cos(angle) * 0.2, the speed factor forgotten
fieldForceXNoSpeed(angle, speed) == Fix(Cos(angle) * 2 * Scale, 10 * 1000)

\* Math.cos(angle) * 0.2 * speed   and   Math.sin(angle) * 0.2 * speed
fieldForceX(angle, speed) == Fix(Cos(angle) * 2 * speed * Scale, 10 * 1000)
fieldForceY(angle, speed) == Fix(Sin(angle) * 2 * speed * Scale, 10 * 1000)

\* Math.sqrt(dx * dx + dy * dy)
Distance(dx, dy) == Sqrt(dx * dx + dy * dy)

\* the test written  distance <= interactionRadius
InRangeInclusive(distance) == distance <= interactionRadius * Scale

\* the test  distance < interactionRadius
InRange(distance) == distance < interactionRadius * Scale

\* (interactionRadius - distance) / interactionRadius
Force(distance) ==
    Fix((interactionRadius * Scale - distance) * Scale, interactionRadius * Scale)

\* the same amount with the sign of an attraction
PushToward(d, force) == -Fix(Fix(d * force, Scale) * 5, 100)

\* d * force * 0.05, the amount subtracted from a velocity component
Push(d, force) == Fix(Fix(d * force, Scale) * 5, 100)

\* a friction that also reverses the component
FrictionReverses(v) == -Fix(v * 95, 100)

\* no friction at all
FrictionOff(v) == v

\* v *= 0.95
Friction(v) == Fix(v * 95, 100)

\* a test that lets a particle outlive its lifespan by 50 ticks
ExpiredLate(age, life) == age * Scale > life + 50 * Scale

\* the test written  this.age >= this.life
ExpiredInclusive(age, life) == age * Scale >= life

\* this.age > this.life
Expired(age, life) == age * Scale > life

\* a wrap that keeps the overshoot: c + dim below 0, c - dim above dim
WrapOvershoot(c, dim) ==
    IF c < 0 THEN c + dim * Scale
    ELSE IF c > dim * Scale THEN c - dim * Scale ELSE c

\* a wrap without its first test: a coordinate below 0 stays there
WrapUpperOnly(c, dim) == IF c > dim * Scale THEN 0 ELSE c

\* if (c < 0) c = dim; if (c > dim) c = 0;
Wrap(c, dim) ==
    LET c1 == IF c < 0 THEN dim * Scale ELSE c
    IN  IF c1 > dim * Scale THEN 0 ELSE c1

\* 1 - Math.abs(age / life - 0.5) * 2
Alpha(age, life) == Scale - Abs(2 * Fix(age * Scale * Scale, life) - Scale)

\* What a particle's latest update() and draw() call did: the particle and
\* the pointer it started from, its locals dx, dy, distance and force, whether
\* the repulsion branch ran, the field force (fx, fy) and the repulsion
\* impulse (ix, iy) it added to the velocity, whether reset() ran, the
\* particle as it entered step 6 (wrap), and the globalAlpha draw() used.
NoObs == [called |-> FALSE]

\* Particle.update() followed by Particle.draw(): the particle afterwards and
\* the locals of the call.  d is the draw reset() uses if it runs.
update(p, mouse, width, height, speed, d) ==
    LET angle    == fieldAngle(p.x, p.y)
        vx1      == p.vx + fieldForceX(angle, speed)
        vy1      == p.vy + fieldForceY(angle, speed)
        dx       == mouse.x - p.x
        dy       == mouse.y - p.y
        distance == Distance(dx, dy)
        hit      == InRange(distance)
        force    == IF hit THEN Force(distance) ELSE 0
        vx2      == IF hit THEN vx1 - Push(dx, force) ELSE vx1
        vy2      == IF hit THEN vy1 - Push(dy, force) ELSE vy1
        moved    == [p EXCEPT !.x = p.x + vx2, !.y = p.y + vy2,
                              !.vx = Friction(vx2), !.vy = Friction(vy2),
                              !.age = p.age + 1]
        expired  == Expired(moved.age, moved.life)
        aged     == IF expired THEN reset(moved, width, height, d) ELSE moved
        wrapped  == [aged EXCEPT !.x = Wrap(aged.x, width),
                                 !.y = Wrap(aged.y, height)]
    IN  [p   |-> wrapped,
         obs |-> [called |-> TRUE, before |-> p, mouse |-> mouse, dx |-> dx, dy |-> dy, distance |-> distance,
                  hit |-> hit, force |-> force,
                  fx |-> vx1 - p.vx, fy |-> vy1 - p.vy,
                  ix |-> vx2 - vx1, iy |-> vy2 - vy1,
                  recycled |-> expired, prewrap |-> aged,
                  alpha |-> Alpha(wrapped.age, wrapped.life)]]

\* whether the next update() of p calls reset()
WillRecycle(p) == Expired(p.age + 1, p.life)

\* the outcomes of update() + draw() on p, one per value Math.random() may take
UpdateSet(p, mouse, width, height, speed, rs) ==
    IF WillRecycle(p)
    THEN {update(p, mouse, width, height, speed, d) : d \in rs}
    ELSE {update(p, mouse, width, height, speed, [x |-> 0, y |-> 0, life |-> 0])}

\* a forEach that leaves the pool in reverse order
RECURSIVE forEachReversed(_, _, _, _, _, _)
forEachReversed(ps, mouse, width, height, speed, rs) ==
    IF ps = <<>> THEN {<<>>}
    ELSE {rest \o <<u>> :
             u \in UpdateSet(Head(ps), mouse, width, height, speed, rs),
             rest \in forEachReversed(Tail(ps), mouse, width, height, speed, rs)}

\* particles.forEach(p => { p.update(); p.draw(ctx); }), in pool order
RECURSIVE forEach(_, _, _, _, _, _)
forEach(ps, mouse, width, height, speed, rs) ==
    IF ps = <<>> THEN {<<>>}
    ELSE {<<u>> \o rest :
             u \in UpdateSet(Head(ps), mouse, width, height, speed, rs),
             rest \in forEach(Tail(ps), mouse, width, height, speed, rs)}

\* for (let i = 0; i < particleCount; i++) particles.push(new Particle())
RECURSIVE pushAll(_, _, _, _, _)
pushAll(ps, n, width, height, rs) ==
    IF n <= 0 THEN {ps}
    ELSE UNION {pushAll(Append(ps, Particle(width, height, d)), n - 1, width, height, rs) :
                   d \in rs}

\* ------------------------------------------------------------ host objects
VARIABLES
    mounted,    \* the component is mounted
    props,      \* its props [color, trailOpacity, particleCount, speed]
    host,       \* what the environment offers: [refs, ctx, raf : BOOLEAN, dpr]
    container,  \* <<clientWidth, clientHeight>> of the container element
    canvas,     \* the canvas element: [width, height, scale]
    cur,        \* the effect closure whose cleanup React holds (0: none)
    engines,    \* the effect closures still referenced, by slot
    pending,    \* scheduled frame callbacks: records [id, inst]
    listeners,  \* registered handlers: [resize, mousemove, mouseleave : sets of slots]
    last        \* the handler that ran last and the host calls it made

\* The page's other components, each one record of its React state, its refs
\* and the asynchronous work it has in flight.
VARIABLES
    fileUpload, \* FileUpload: [fileName, error : its state; readers : the FileReaders
                \* reading, as [id, file]; picked, picks, shown, removed, calls : the
                \* file handed over last, how many were, the pick whose name is
                \* shown, the picks removed with clearFile, the onFileSelect calls]
    home,       \* Home (the page): [result, loading, error, language : its state;
                \* requests : the detectAudio calls in flight, as [id, audio, language]]
    recorder,   \* useAudioRecorder: [isRecording, error : its state; mediaRecorderRef :
                \* the MediaRecorder the ref holds (0: null); recorders : the
                \* MediaRecorders created, as [state, started, onstop, stopEvent]; chunks :
                \* the length of chunksRef; asking : getUserMedia calls pending;
                \* converting : FileReaders reading a recording; starts, owner :
                \* the startRecording calls made, the recorder whose start turned
                \* isRecording true]
    voice       \* AIVoiceInput: [mounted; controlled, external, onStart : whether the
                \* isRecording prop is given, its value, the identity of the onStart
                \* prop; internalSubmitted, time, isClient, isDemo : its state;
                \* timers : the intervals running, as [id, phase] with the phase in
                \* half seconds; intervalId : the interval of the current timer
                \* effect (0: none); demoTimer : the pending demo timeout; made,
                \* events, clock, elapsed : intervals created, events handled, half
                \* seconds since mount and since submitted turned true]

engineVars == <<mounted, props, host, container, canvas, cur, engines, pending, listeners>>
widgets == <<fileUpload, home, recorder, voice>>
vars == <<mounted, props, host, container, canvas, cur, engines, pending, listeners, last,
          fileUpload, home, recorder, voice>>

\* JavaScript's null, where a string, a file name (a sequence of characters),
\* a File or a DetectionResponse is expected
Null == "null"
NullName == <<>>
NullFile == [name |-> NullName, type |-> <<>>, size |-> 0, body |-> Null]
NullResponse == [id |-> 0, audio |-> Null, language |-> Null]

\* useState<string | null>(null) twice in FileUpload; no FileReader is reading,
\* no file was handed to validateAndProcessFile, onFileSelect was not called
FileUploadInit ==
    [fileName |-> NullName, error |-> Null, readers |-> {}, picked |-> NullFile, picks |-> 0,
     shown |-> 0, removed |-> {}, calls |-> <<>>]

\* useState(null), useState(false), useState(null), useState("English") in Home;
\* no request in flight
HomeInit ==
    [result |-> NullResponse, loading |-> FALSE, error |-> Null, language |-> "English",
     requests |-> {}]

\* useState(false), useState(null), useRef(null), useRef([]) in useAudioRecorder
RecorderInit ==
    [isRecording |-> FALSE, error |-> Null, mediaRecorderRef |-> 0, recorders |-> <<>>,
     chunks |-> 0, asking |-> 0, converting |-> 0, starts |-> 0, owner |-> 0]

\* AIVoiceInput before it is mounted
VoiceInit ==
    [mounted |-> FALSE, controlled |-> FALSE, external |-> FALSE, onStart |-> 0,
     internalSubmitted |-> FALSE, time |-> 0, isClient |-> FALSE, isDemo |-> FALSE,
     timers |-> {}, intervalId |-> 0, demoTimer |-> "none",
     made |-> 0, events |-> 0, clock |-> 0, elapsed |-> 0]

\* the other components as they are before anything happened to them
WidgetsIdle ==
    /\ fileUpload = FileUploadInit
    /\ home = HomeInit
    /\ recorder = RecorderInit
    /\ voice = VoiceInit

Slots == 1..MaxInst
FrameIds == 1..MaxFrames

Props(counts) ==
    [color : ColorSet, trailOpacity : TrailSet, particleCount : counts, speed : SpeedSet]

NoListeners == [resize |-> {}, mousemove |-> {}, mouseleave |-> {}]

\* the closures, frame queue, listener lists and canvas, as one value
World == [engines |-> engines, pending |-> pending, listeners |-> listeners,
          canvas |-> canvas]

Min(S) == CHOOSE n \in S : \A m \in S : n <= m

\* slots of closures something can still call: the one React holds the cleanup
\* of, and those a pending frame callback or a registered listener refers to
Referenced(w, c) ==
    {i \in DOMAIN w.engines :
        \/ i = c
        \/ \E f \in w.pending : f.inst = i
        \/ i \in w.listeners.resize \cup w.listeners.mousemove \cup w.listeners.mouseleave}

\* closures nothing refers to any more are garbage
Collect(w, c) ==
    [w EXCEPT !.engines = [i \in Referenced(w, c) |-> w.engines[i]]]

\* ids no pending callback and no other closure's animationFrameId holds
FreeIds(w, self) ==
    {n \in FrameIds :
        /\ \A f \in w.pending : f.id # n
        /\ \A i \in DOMAIN w.engines \ {self} : w.engines[i].animationFrameId # n}

\* window.devicePixelRatio || 1
DevicePixelRatio == IF host.dpr = 0 THEN 1 ELSE host.dpr

\* init() without "particles = []"
initKeepsParticles(w, i, rs) ==
    LET e   == w.engines[i]
        dpr == DevicePixelRatio
        cv  == [width |-> e.width * dpr, height |-> e.height * dpr, scale |-> 1 * dpr]
    IN  {[w EXCEPT !.canvas = cv,
                   !.engines[i].particles = ps,
                   !.engines[i].obs = [k \in 1..Len(ps) |-> NoObs]] :
            ps \in pushAll(e.particles, e.cfg.particleCount, e.width, e.height,
                           rs[e.cfg.particleCount])}

\* init() on a canvas whose transform survives the assignment of its width:
\* ctx.scale() multiplies the scale already there
initCompoundsScale(w, i, rs) ==
    LET e   == w.engines[i]
        dpr == DevicePixelRatio
        cv  == [width |-> e.width * dpr, height |-> e.height * dpr,
                scale |-> w.canvas.scale * dpr]
    IN  {[w EXCEPT !.canvas = cv,
                   !.engines[i].particles = ps,
                   !.engines[i].obs = [k \in 1..Len(ps) |-> NoObs]] :
            ps \in pushAll(<<>>, e.cfg.particleCount, e.width, e.height,
                           rs[e.cfg.particleCount])}

\* init(): the worlds it can leave, one per outcome of the Math.random() calls
init(w, i, rs) ==
    LET e   == w.engines[i]
        dpr == DevicePixelRatio
        \* assigning canvas.width / canvas.height resets the context's transform
        cv  == [width |-> e.width * dpr, height |-> e.height * dpr, scale |-> 1 * dpr]
    IN  {[w EXCEPT !.canvas = cv,
                   !.engines[i].particles = ps,
                   !.engines[i].obs = [k \in 1..Len(ps) |-> NoObs]] :
            ps \in pushAll(<<>>, e.cfg.particleCount, e.width, e.height,
                           rs[e.cfg.particleCount])}

\* the body of animate() up to the forEach: trail wash, then update + draw
tick(w, i, rs) ==
    LET e == w.engines[i]
    IN  {[w EXCEPT !.engines[i].particles = [k \in 1..Len(us) |-> us[k].p],
                   !.engines[i].obs = [k \in 1..Len(us) |-> us[k].obs]] :
            us \in forEach(e.particles, e.mouse, e.width, e.height, e.cfg.speed,
                           rs[e.cfg.particleCount])}

\* animationFrameId = requestAnimationFrame(animate)
requestAnimationFrame(w, i) ==
    IF FreeIds(w, i) = {} THEN {}
    ELSE LET id == Min(FreeIds(w, i))
         IN  {[w EXCEPT !.engines[i].animationFrameId = id,
                        !.pending = @ \cup {[id |-> id, inst |-> i]}]}

\* animate() without its requestAnimationFrame call
animateOnce(w, i, rs) == tick(w, i, rs)

\* animate()
animate(w, i, rs) ==
    UNION {requestAnimationFrame(w1, i) : w1 \in tick(w, i, rs)}

RECURSIVE updateDrawCalls(_)
updateDrawCalls(n) ==
    IF n = 0 THEN <<>> ELSE <<"update", "draw">> \o updateDrawCalls(n - 1)

\* the host and particle calls of one animate(), in order
animateCalls(n) == <<"fillRect">> \o updateDrawCalls(n) \o <<"requestAnimationFrame">>

\* handleResize() that also forgets the pointer
handleResizeResetsMouse(w, i, rs) ==
    init([w EXCEPT !.engines[i].width = container[1],
                   !.engines[i].height = container[2],
                   !.engines[i].mouse = Sentinel], i, rs)

\* handleResize()
handleResize(w, i, rs) ==
    init([w EXCEPT !.engines[i].width = container[1],
                   !.engines[i].height = container[2]], i, rs)

\* handleMouseMove(e): e.clientX - rect.left, e.clientY - rect.top
handleMouseMove(w, i, client, origin) ==
    [w EXCEPT !.engines[i].mouse = [x |-> (client[1] - origin[1]) * Scale,
                                    y |-> (client[2] - origin[2]) * Scale]]

\* handleMouseLeave()
handleMouseLeave(w, i) ==
    [w EXCEPT !.engines[i].mouse = Sentinel]

\* cleanup() without its cancelAnimationFrame call
cleanupNoCancel(w, i) ==
    [w EXCEPT !.listeners = [resize     |-> @.resize \ {i},
                             mousemove  |-> @.mousemove \ {i},
                             mouseleave |-> @.mouseleave \ {i}]]

\* cleanup() that leaves the "mousemove" listener registered
cleanupKeepsMouseMove(w, i) ==
    [w EXCEPT !.listeners = [resize     |-> @.resize \ {i},
                             mousemove  |-> @.mousemove,
                             mouseleave |-> @.mouseleave \ {i}],
              !.pending = {f \in @ : f.id # w.engines[i].animationFrameId}]

\* the function the effect returns
cleanup(w, i) ==
    [w EXCEPT !.listeners = [resize     |-> @.resize \ {i},
                             mousemove  |-> @.mousemove \ {i},
                             mouseleave |-> @.mouseleave \ {i}],
              !.pending = {f \in @ : f.id # w.engines[i].animationFrameId}]

\* the three addEventListener calls
addEventListeners(w, i) ==
    [w EXCEPT !.listeners = [resize     |-> @.resize \cup {i},
                             mousemove  |-> @.mousemove \cup {i},
                             mouseleave |-> @.mouseleave \cup {i}]]

\* the closure at "--- CONFIGURATION ---": width, height, particles, mouse
closure(pr) ==
    [width |-> container[1], height |-> container[2], particles |-> <<>>, obs |-> <<>>,
     animationFrameId |-> 0, mouse |-> Sentinel, cfg |-> pr]

\* the start sequence without its init() call
startNoInit(w, i, pr, rs) ==
    LET w0 == [w EXCEPT !.engines = [k \in DOMAIN @ \cup {i} |->
                                        IF k = i THEN closure(pr) ELSE @[k]]]
    IN  {addEventListeners(w2, i) : w2 \in animate(w0, i, rs)}

\* "// Start": init(); animate(); then the listeners are added
start(w, i, pr, rs) ==
    LET w0 == [w EXCEPT !.engines = [k \in DOMAIN @ \cup {i} |->
                                        IF k = i THEN closure(pr) ELSE @[k]]]
    IN  {addEventListeners(w2, i) :
            w2 \in UNION {animate(w1, i, rs) : w1 \in init(w0, i, rs)}}

\* the same when requestAnimationFrame is missing: animate() throws after its
\* forEach, so no listener is added and the effect returns no cleanup
startThrows(w, i, pr, rs) ==
    LET w0 == [w EXCEPT !.engines = [k \in DOMAIN @ \cup {i} |->
                                        IF k = i THEN closure(pr) ELSE @[k]]]
    IN  UNION {tick(w1, i, rs) : w1 \in init(w0, i, rs)}

\* the guards without the check of the context
UnavailableRefsOnly == ~host.refs

\* if (!canvas || !container) return;  if (!ctx) return;
Unavailable == ~host.refs \/ ~host.ctx

Install(w, c) ==
    /\ engines' = w.engines
    /\ pending' = w.pending
    /\ listeners' = w.listeners
    /\ canvas' = w.canvas
    /\ cur' = c

\* One run of the effect body with props pr in world w (the previous effect's
\* cleanup, if any, has run).
useEffect(op, w, pr, rs) ==
    IF Unavailable
    THEN \* the effect returns before it creates anything
         /\ Install(Collect(w, 0), 0)
         /\ mounted' = TRUE
         /\ last' = [op |-> op, inst |-> 0, calls |-> <<>>]
    ELSE /\ Slots \ DOMAIN w.engines # {}
         /\ LET i == Min(Slots \ DOMAIN w.engines)
            IN  IF host.raf
                THEN \E w1 \in start(w, i, pr, rs) :
                        /\ Install(Collect(w1, i), i)
                        /\ mounted' = TRUE
                        /\ last' = [op |-> op, inst |-> i,
                                    calls |-> <<"init">> \o animateCalls(pr.particleCount)
                                                \o <<"addEventListener", "addEventListener",
                                                     "addEventListener">>]
                ELSE \E w1 \in startThrows(w, i, pr, rs) :
                        \* the uncaught error unmounts the component
                        /\ Install(Collect(w1, 0), 0)
                        /\ mounted' = FALSE
                        /\ last' = [op |-> op, inst |-> i,
                                    calls |-> <<"init", "fillRect">>
                                                \o updateDrawCalls(pr.particleCount)
                                                \o <<"throw">>]

\* ----------------------------------------------------------------- actions
Init ==
    /\ mounted = FALSE
    /\ props \in Props(CountSet)
    /\ host \in HostSet
    /\ container \in DimSet
    /\ canvas = [width |-> 300, height |-> 150, scale |-> 1]
    /\ cur = 0
    /\ engines = <<>>
    /\ pending = {}
    /\ listeners = NoListeners
    /\ last = [op |-> "none", inst |-> 0, calls |-> <<>>]
    /\ WidgetsIdle

\* React mounts the component and runs the effect
Mount(configs, rs) ==
    /\ ~mounted
    /\ \E pr \in configs :
          /\ props' = pr
          /\ useEffect("mount", World, pr, rs)
    /\ UNCHANGED <<host, container>>
    /\ UNCHANGED widgets

\* a re-render with a changed dependency: React runs the previous effect's
\* cleanup, then the effect again
Rerender(configs, rs) ==
    /\ mounted
    /\ \E pr \in configs :
          /\ pr # props
          /\ props' = pr
          /\ useEffect("rerender", IF cur = 0 THEN World ELSE Collect(cleanup(World, cur), 0), pr, rs)
    /\ UNCHANGED <<host, container>>
    /\ UNCHANGED widgets

\* React unmounts the component and runs the effect's cleanup
Unmount ==
    /\ mounted
    /\ mounted' = FALSE
    /\ Install(IF cur = 0 THEN World ELSE Collect(cleanup(World, cur), 0), 0)
    /\ last' = [op |-> "cleanup", inst |-> cur, calls |-> <<>>]
    /\ UNCHANGED <<props, host, container>>
    /\ UNCHANGED widgets

\* the layout gives the container another size
LayoutTo(dims) ==
    /\ mounted
    /\ \E d \in dims : d # container /\ container' = d
    /\ UNCHANGED <<mounted, props, host, canvas, cur, engines, pending, listeners, last>>
    /\ UNCHANGED widgets

Layout == LayoutTo(DimSet)

\* the browser runs a scheduled frame callback
Frame(rs, maxAge) ==
    \E f \in pending :
        /\ \A k \in DOMAIN engines[f.inst].particles :
              engines[f.inst].particles[k].age < maxAge
        /\ \E w \in animate([World EXCEPT !.pending = @ \ {f}], f.inst, rs) :
              Install(Collect(w, cur), cur)
        /\ last' = [op |-> "animate", inst |-> f.inst,
                    calls |-> animateCalls(Len(engines[f.inst].particles))]
        /\ UNCHANGED <<mounted, props, host, container>>
        /\ UNCHANGED widgets

\* the window fires "resize"
Resize(rs) ==
    \E i \in listeners.resize :
        /\ \E w \in handleResize(World, i, rs) : Install(Collect(w, cur), cur)
        /\ last' = [op |-> "handleResize", inst |-> i, calls |-> <<"init">>]
        /\ UNCHANGED <<mounted, props, host, container>>
        /\ UNCHANGED widgets

\* the container fires "mousemove"
MouseMove(maxAge) ==
    \E i \in listeners.mousemove :
        /\ \A k \in DOMAIN engines[i].particles : engines[i].particles[k].age < maxAge
        /\ \E client \in ClientSet, origin \in OriginSet :
              Install(handleMouseMove(World, i, client, origin), cur)
        /\ last' = [op |-> "handleMouseMove", inst |-> i, calls |-> <<>>]
        /\ UNCHANGED <<mounted, props, host, container>>
        /\ UNCHANGED widgets

\* the container fires "mouseleave"
MouseLeave(maxAge) ==
    \E i \in listeners.mouseleave :
        /\ \A k \in DOMAIN engines[i].particles : engines[i].particles[k].age < maxAge
        /\ Install(handleMouseLeave(World, i), cur)
        /\ last' = [op |-> "handleMouseLeave", inst |-> i, calls |-> <<>>]
        /\ UNCHANGED <<mounted, props, host, container>>
        /\ UNCHANGED widgets

\* Math.random() in Spec, by particleCount
Random == [n \in CountSet |-> RandomSet]

Next ==
    \/ Mount(Props(CountSet), Random)
    \/ Rerender(Props(CountSet), Random)
    \/ Unmount
    \/ Layout
    \/ Frame(Random, MaxAge)
    \/ Resize(Random)
    \/ MouseMove(MaxAge)
    \/ MouseLeave(MaxAge)

Spec == Init /\ [][Next]_vars

\* The same engine with one particle, left running for whole particle lives:
\* frames fire at every age (no particle lives longer than NoAgeLimit ticks),
\* the pointer acts only on young particles, and the environment offers a
\* context and requestAnimationFrame.
NoAgeLimit == LifeBase + LifeSpread + 1

\* Math.random() in SpecLife, by particleCount
RandomLifeOf == [n \in CountSet |-> RandomSetLife]

InitLife == Init /\ host = [refs |-> TRUE, ctx |-> TRUE, raf |-> TRUE, dpr |-> 2]

NextLife ==
    \/ Mount(Props({1}), RandomLifeOf)
    \/ Unmount
    \/ Layout
    \/ Frame(RandomLifeOf, NoAgeLimit)
    \/ Resize(RandomLifeOf)
    \/ MouseMove(MaxEventAge)
    \/ MouseLeave(MaxEventAge)

SpecLife == InitLife /\ [][NextLife]_vars

\* The engine with a pool of one or more particles, left running through
\* recyclings, resizes and restarts, the pointer staying away.
RandomPoolOf == [n \in CountSet |-> RandomSetPool]

NextPool ==
    \/ Mount(Props(CountSet), RandomPoolOf)
    \/ Rerender(Props(CountSet), RandomPoolOf)
    \/ Unmount
    \/ Layout
    \/ Frame(RandomPoolOf, NoAgeLimit)
    \/ Resize(RandomPoolOf)

SpecPool == InitLife /\ [][NextPool]_vars

\* The engine with one particle and the pointer, left running through whole
\* particle lives of every length, with the host's promise about requestAnimationFrame: a
\* callback that stays scheduled is called.
TickStep == Frame(RandomLifeOf, NoAgeLimit)

\* ENABLED TickStep, written out: a callback is pending and its animate() runs
\* to its end
TickEnabled ==
    \E f \in pending :
        /\ \A k \in DOMAIN engines[f.inst].particles :
              engines[f.inst].particles[k].age < NoAgeLimit
        /\ animate([World EXCEPT !.pending = @ \ {f}], f.inst, RandomLifeOf) # {}

\* WF_vars(TickStep), with TickEnabled for ENABLED <<TickStep>>_vars
FairTicks == []<>(~TickEnabled) \/ []<><<TickStep>>_vars

NextRun ==
    \/ Mount(Props({1}), RandomLifeOf)
    \/ Unmount
    \/ Layout
    \/ TickStep
    \/ Resize(RandomLifeOf)
    \/ MouseMove(MaxRunEventAge)
    \/ MouseLeave(MaxRunEventAge)

SpecRun == InitLife /\ [][NextRun]_vars /\ FairTicks

\* The engine under changes of every configuration value, the pointer moving
\* in between, for the first frames of each engine.
NextConfig ==
    \/ Mount(ConfigSet, Random)
    \/ Rerender(ConfigSet, Random)
    \/ Unmount
    \/ Frame(Random, MaxAge)
    \/ MouseMove(MaxAge)
    \/ MouseLeave(MaxAge)

SpecConfig == InitLife /\ [][NextConfig]_vars

\* The engine with one particle in a container that can be very small, the
\* pointer pushing the particle for its first ticks.
InitWrap ==
    /\ mounted = FALSE
    /\ props \in Props({1})
    /\ host = [refs |-> TRUE, ctx |-> TRUE, raf |-> TRUE, dpr |-> 2]
    /\ container \in WrapDimSet
    /\ canvas = [width |-> 300, height |-> 150, scale |-> 1]
    /\ cur = 0
    /\ engines = <<>>
    /\ pending = {}
    /\ listeners = NoListeners
    /\ last = [op |-> "none", inst |-> 0, calls |-> <<>>]
    /\ WidgetsIdle

NextWrap ==
    \/ Mount(Props({1}), Random)
    \/ Unmount
    \/ LayoutTo(WrapDimSet)
    \/ Frame(Random, MaxWrapAge)
    \/ Resize(Random)
    \/ MouseMove(MaxEventAge)
    \/ MouseLeave(MaxEventAge)

SpecWrap == InitWrap /\ [][NextWrap]_vars

\* ------------------------------------------------------------------ claims
HandlerOps == {"animate", "handleResize", "handleMouseMove", "handleMouseLeave"}

\* every particle of every closure, with what its latest update() did
Particles ==
    UNION {{[inst |-> i, k |-> k, p |-> engines[i].particles[k], obs |-> engines[i].obs[k],
             width |-> engines[i].width, height |-> engines[i].height,
             speed |-> engines[i].cfg.speed] :
               k \in DOMAIN engines[i].particles} : i \in DOMAIN engines}

Updated == {q \in Particles : q.obs.called}

\* C1: in every reachable state at most one frame callback is pending, and
\* it is the one the running engine scheduled last; after a restart (mount or
\* re-render) the only pending callback is the new engine's, the old one
\* having been cancelled by the teardown.
C1_AtMostOneLoop ==
    /\ Cardinality(pending) <= 1
    /\ cur # 0 => pending = {[id |-> engines[cur].animationFrameId, inst |-> cur]}

\* C1 witness: an engine was torn down by a re-render and a new loop runs
C1_Witness ==
    /\ last.op = "rerender" /\ cur # 0 /\ Cardinality(pending) = 1

\* C2: after the teardown of an engine no frame callback of it is pending
\* and none of its three listeners is registered, so none of its handlers runs
\* again: whatever handler ran last ran on the engine that is still set up.
C2_NoCallAfterTeardown ==
    /\ \A f \in pending : cur # 0 /\ f.inst = cur
    /\ \A i \in listeners.resize \cup listeners.mousemove \cup listeners.mouseleave :
          cur # 0 /\ i = cur
    /\ DOMAIN engines = (IF cur = 0 THEN {} ELSE {cur})
    /\ last.op \in HandlerOps => mounted /\ cur # 0 /\ last.inst = cur

\* C2 witness: a running engine has been torn down
C2_Witness ==
    /\ last.op = "cleanup" /\ last.inst # 0 /\ ~mounted
    /\ pending = {} /\ listeners = NoListeners

LifeMin == LifeBase * Scale
LifeSup == (LifeBase + LifeSpread) * Scale

\* C3: every engine's pool holds exactly particleCount particles in every
\* state, through ticks, recyclings, resizes and restarts; right after
\* handleResize has called init() every particle is a fresh one: never
\* updated, zero velocity, age 0, position inside [0,width) x [0,height).
C3_PoolSize ==
    /\ \A i \in DOMAIN engines :
          /\ Len(engines[i].particles) = engines[i].cfg.particleCount
          /\ DOMAIN engines[i].obs = DOMAIN engines[i].particles
    /\ last.op = "handleResize" =>
          \A q \in Particles :
              q.inst = last.inst =>
                  /\ ~q.obs.called
                  /\ q.p.vx = 0 /\ q.p.vy = 0 /\ q.p.age = 0
                  /\ 0 <= q.p.x /\ q.p.x < q.width * Scale
                  /\ 0 <= q.p.y /\ q.p.y < q.height * Scale

\* C3 witness: init() has run again on a pool of two particles
C3_Witness ==
    /\ last.op = "handleResize" /\ cur # 0
    /\ engines[cur].cfg.particleCount = 2 /\ Len(engines[cur].particles) = 2

\* C4: every particle in every reachable state has age >= 0 and
\* 100 <= lifespan < 300.
C4_AgeLifeRange ==
    \A q \in Particles :
        /\ q.p.age >= 0
        /\ LifeMin <= q.p.life /\ q.p.life < LifeSup

\* C4 witness: a particle that has been recycled with a lifespan above 100
C4_Witness ==
    \E q \in Updated : q.obs.recycled /\ q.p.life > LifeMin /\ q.obs.before.age >= LifeBase

\* C5: a tick recycles a particle exactly when the incremented age exceeds
\* the lifespan; the particle then ends the tick with age 0 and a lifespan in
\* [100,300), so the following tick does not recycle it again; otherwise the
\* age advances by one, the lifespan is kept and the age does not exceed it.
C5_RecycledOnce ==
    \A q \in Updated :
        LET b == q.obs.before
        IN  /\ b.age * Scale <= b.life
            /\ q.obs.recycled <=> (b.age + 1) * Scale > b.life
            /\ q.obs.recycled =>
                  /\ q.p.age = 0
                  /\ LifeMin <= q.p.life /\ q.p.life < LifeSup
                  /\ (q.p.age + 1) * Scale <= q.p.life
            /\ ~q.obs.recycled =>
                  /\ q.p.age = b.age + 1 /\ q.p.life = b.life
                  /\ q.p.age * Scale <= q.p.life

\* C5 witness: a particle whose age passed its lifespan has been recycled
C5_Witness ==
    \E q \in Updated :
        /\ q.obs.recycled /\ (q.obs.before.age + 1) * Scale > q.obs.before.life
        /\ q.p.age = 0

\* the coordinate the claim gives for a coordinate c entering the wrap step
WrapClaim(c, dim) == IF c > dim * Scale THEN 0 ELSE IF c < 0 THEN dim * Scale ELSE c

\* C6: the wrap step of update maps a coordinate above its dimension to 0,
\* one below 0 to the dimension, leaves one inside [0, dimension] unchanged,
\* and changes nothing else of the particle (its velocity in particular).
C6_Wrap ==
    \A q \in Updated :
        LET b == q.obs.prewrap
        IN  /\ q.p.x = WrapClaim(b.x, q.width)
            /\ q.p.y = WrapClaim(b.y, q.height)
            /\ q.p.vx = b.vx /\ q.p.vy = b.vy
            /\ q.p.age = b.age /\ q.p.life = b.life

\* C6 witness: a moving particle has left the surface over its right edge
C6_Witness ==
    \E q \in Updated :
        /\ q.obs.prewrap.x > q.width * Scale /\ q.p.x = 0
        /\ q.p.vx # 0

\* further cases of C6 that are reached: the left, bottom and top edges
C6_ReachedLeft == \E q \in Updated : q.obs.prewrap.x < 0 /\ q.p.x = q.width * Scale
C6_ReachedBottom == \E q \in Updated : q.obs.prewrap.y > q.height * Scale /\ q.p.y = 0
C6_ReachedTop == \E q \in Updated : q.obs.prewrap.y < 0 /\ q.p.y = q.height * Scale

Radius == interactionRadius * Scale

\* squared magnitude of the repulsion impulse of an update
ImpulseSq(o) == o.ix * o.ix + o.iy * o.iy

\* the impulse update gives a particle that sits on the pointer (dx = dy = 0)
ImpulseSqAtPointer ==
    LET f == Force(Distance(0, 0)) IN Push(0, f) * Push(0, f) + Push(0, f) * Push(0, f)

\* C7 as claimed: no particle receives a repulsion impulse larger than the
\* one a particle at distance 0 from the pointer receives.
C7_MaximalAtZero ==
    \A q \in Updated : q.obs.hit => ImpulseSq(q.obs) <= ImpulseSqAtPointer

\* C7 amended: the impulse is -(dx, dy) * force * 0.05 with force =
\* (150 - distance)/150 in (0, 1]: each component points away from the
\* pointer and is at most |d| * force * 0.05; force is 1 exactly at distance
\* 0 and smaller the farther the particle is; the impulse itself is zero at
\* distance 0, and zero from the radius on.
C7_ImpulseAway ==
    /\ \A q \in Updated :
          LET o == q.obs
          IN  /\ o.ix * o.dx <= 0 /\ o.iy * o.dy <= 0
              /\ Abs(o.ix) * 20 * Scale <= Abs(o.dx) * o.force
              /\ Abs(o.iy) * 20 * Scale <= Abs(o.dy) * o.force
              /\ Abs(o.ix) * 20 * Scale > Abs(o.dx) * o.force - 40 * Scale
              /\ Abs(o.iy) * 20 * Scale > Abs(o.dy) * o.force - 40 * Scale
              /\ 0 <= o.force /\ o.force <= Scale
              /\ o.force = Scale <=> o.distance = 0
              /\ o.distance = 0 => o.ix = 0 /\ o.iy = 0
              /\ o.distance >= Radius => o.ix = 0 /\ o.iy = 0 /\ o.force = 0
    /\ \A q1, q2 \in Updated :
          q1.obs.distance <= q2.obs.distance => q1.obs.force >= q2.obs.force

\* C7 witness: a particle in range, off the pointer, has been pushed away
C7_Witness ==
    \E q \in Updated :
        /\ q.obs.hit /\ q.obs.distance > 0
        /\ q.obs.dx > 0 /\ q.obs.ix < 0

\* C8: force is 1 for a particle at distance 0 from the pointer; a particle
\* at distance >= 150 does not enter the repulsion branch, and its velocity
\* after the tick is the damped sum of its old velocity and the field force.
C8_ForceAtZeroAndRadius ==
    \A q \in Updated :
        LET o == q.obs
        IN  /\ o.distance = 0 => o.hit /\ o.force = Scale
            /\ o.distance < Radius => o.hit
            /\ o.distance >= Radius =>
                  /\ ~o.hit /\ o.ix = 0 /\ o.iy = 0
                  /\ o.prewrap.vx = (IF o.recycled THEN 0
                                     ELSE Fix((o.before.vx + o.fx) * 95, 100))
                  /\ o.prewrap.vy = (IF o.recycled THEN 0
                                     ELSE Fix((o.before.vy + o.fy) * 95, 100))

\* C8 witness: in one tick one particle sat on the pointer and another
\* was farther than the radius from it
C8_Witness ==
    \E q1, q2 \in Updated :
        /\ q1.inst = q2.inst /\ q1.obs.mouse = q2.obs.mouse
        /\ q1.obs.distance = 0 /\ q1.obs.force = Scale
        /\ q2.obs.distance > Radius /\ ~q2.obs.hit

\* the boundary case of C8 is reached: a particle exactly 150 from the pointer
C8_ReachedRadius ==
    \E q \in Updated : q.obs.distance = Radius /\ q.obs.mouse # Sentinel /\ ~q.obs.hit

\* C9: whenever the pointer state is the sentinel, every particle is at
\* least 150 away from it, and an update that ran with the sentinel did not
\* enter the repulsion branch and added no impulse.
C9_SentinelNoRepulsion ==
    /\ \A i \in DOMAIN engines :
          engines[i].mouse = Sentinel =>
              \A k \in DOMAIN engines[i].particles :
                  LET dx == Sentinel.x - engines[i].particles[k].x
                      dy == Sentinel.y - engines[i].particles[k].y
                  IN  dx * dx + dy * dy >= Radius * Radius
    /\ \A q \in Updated :
          q.obs.mouse = Sentinel =>
              /\ ~q.obs.hit /\ q.obs.ix = 0 /\ q.obs.iy = 0
              /\ q.obs.distance >= Radius

\* C9 witness: the pointer pushed a particle, then left, and a tick ran
\* with the sentinel (the speed being 0, only the pointer can have moved it)
C9_Witness ==
    \E q \in Updated :
        /\ last.op = "animate" /\ q.obs.mouse = Sentinel /\ q.speed = 0
        /\ q.obs.before.vx # 0

C11_NoStartWithoutSurface ==
    (~host.refs \/ ~host.ctx) =>
        /\ engines = <<>>
        /\ cur = 0
        /\ pending = {}
        /\ listeners = NoListeners
        /\ canvas = [width |-> 300, height |-> 150, scale |-> 1]
        /\ last.calls = <<>>

\* the effect ran (on a re-render, after an earlier run) without a context
C11_Witness ==
    /\ mounted
    /\ ~host.ctx
    /\ last.op = "rerender"

\* the effect ran without the canvas or container element
C11_ReachedNoRefs ==
    /\ mounted
    /\ ~host.refs
    /\ last.op = "mount"

TickCalls == {"fillRect", "update", "draw"}

\* C12: when requestAnimationFrame is unavailable the engine fails to start
\* without a partial loop: the effect executes no part of a tick (no trail
\* wash, no particle update, no draw) and registers no listener.
C12_NoPartialLoop ==
    ~host.raf =>
        /\ \A k \in DOMAIN last.calls : last.calls[k] \notin TickCalls
        /\ listeners = NoListeners

\* what the code does keep of the claim: nothing is left behind that could run
\* later (no listener, no pending callback, no closure)
C12_NothingLeftRunning ==
    ~host.raf => listeners = NoListeners /\ pending = {} /\ engines = <<>> /\ cur = 0

\* the effect ran without requestAnimationFrame and threw
C12_Reached ==
    /\ ~host.raf
    /\ last.op = "mount"
    /\ last.calls[Len(last.calls)] = "throw"

\* the positions handleMouseMove can compute: event position minus the
\* container's origin
PointerPositions ==
    {[x |-> (client[1] - origin[1]) * Scale, y |-> (client[2] - origin[2]) * Scale] :
        client \in ClientSet, origin \in OriginSet}

\* C13: the pointer state of an engine is written only by its pointer-move
\* handler (to event position minus surface origin) and by its pointer-leave
\* handler (to the sentinel); a tick, with its updates and recyclings, and a
\* resize leave it as it was.  (A mount or re-render creates a new engine.)
C13_PointerWriters ==
    [][\A i \in DOMAIN engines \cap DOMAIN engines' :
          /\ last'.op \in {"animate", "handleResize"} =>
                engines'[i].mouse = engines[i].mouse
          /\ (last'.op \notin {"mount", "rerender"} /\ engines'[i].mouse # engines[i].mouse) =>
                /\ last'.inst = i
                /\ \/ last'.op = "handleMouseMove" /\ engines'[i].mouse \in PointerPositions
                   \/ last'.op = "handleMouseLeave" /\ engines'[i].mouse = Sentinel]_vars

\* a tick recycled a particle while the pointer was inside the container
C13_Witness ==
    /\ last.op = "animate"
    /\ \E q \in Updated :
          /\ q.inst = last.inst
          /\ q.obs.recycled
          /\ engines[q.inst].mouse \in PointerPositions

\* a resize ran while the pointer was inside the container
C13_ReachedResize ==
    /\ last.op = "handleResize"
    /\ engines[last.inst].mouse \in PointerPositions

\* the pointer left the container
C13_ReachedLeave ==
    /\ last.op = "handleMouseLeave"
    /\ engines[last.inst].mouse = Sentinel

\* the frame callback of engine i, and nothing else, is pending
OneLoop(i) == pending = {[id |-> engines[i].animationFrameId, inst |-> i]}

\* C14 as stated: after a configuration change restarted the engine, the pool
\* has the new particleCount particles, all with age 0 and zero velocity, the
\* pointer state is the sentinel and exactly one loop is running.
C14_FreshPoolAfterChange ==
    (last.op = "rerender" /\ cur # 0) =>
        /\ Len(engines[cur].particles) = props.particleCount
        /\ \A k \in DOMAIN engines[cur].particles :
              LET p == engines[cur].particles[k]
              IN  p.age = 0 /\ p.vx = 0 /\ p.vy = 0
        /\ engines[cur].mouse = Sentinel
        /\ OneLoop(cur)

\* C14, amended: every change of a configuration value of a running engine
\* tears it down and starts a new one with the new configuration.  When the
\* effect has returned, only the new closure exists, its pool has the new
\* particleCount particles, each constructed with age 0 and zero velocity and
\* then taken through the first tick by the start sequence (age 1, velocity
\* the field force of that tick after friction), its pointer state is the
\* sentinel, only its frame callback is pending and only its listeners are
\* registered.
C14_RestartOnChange ==
    [][(mounted /\ cur # 0 /\ props' # props) =>
          /\ last'.op = "rerender"
          /\ cur' # 0
          /\ DOMAIN engines' = {cur'}
          /\ engines'[cur'].cfg = props'
          /\ Len(engines'[cur'].particles) = props'.particleCount
          /\ \A k \in DOMAIN engines'[cur'].particles :
                LET p == engines'[cur'].particles[k]
                    o == engines'[cur'].obs[k]
                IN  /\ o.called /\ ~o.recycled
                    /\ o.before.age = 0 /\ o.before.vx = 0 /\ o.before.vy = 0
                    /\ p.age = 1
                    /\ p.vx = Friction(o.fx) /\ p.vy = Friction(o.fy)
          /\ engines'[cur'].mouse = Sentinel
          /\ pending' = {[id |-> engines'[cur'].animationFrameId, inst |-> cur']}
          /\ listeners' = [resize |-> {cur'}, mousemove |-> {cur'}, mouseleave |-> {cur'}]]_vars

\* a configuration change restarted the engine with two particles, and the
\* start sequence's first tick has set one of them moving
C14_Witness ==
    /\ last.op = "rerender"
    /\ cur # 0
    /\ props.particleCount = 2
    /\ \E k \in DOMAIN engines[cur].particles : engines[cur].particles[k].vx # 0

\* a change of color alone, and of trailOpacity alone, restarted the engine
C14_ReachedColor ==
    /\ last.op = "rerender"
    /\ cur # 0
    /\ props.color # "#6366f1"

C14_ReachedTrail ==
    /\ last.op = "rerender"
    /\ cur # 0
    /\ props.trailOpacity # 15

\* engine i measures what the container measures now
SizedAsContainer(i) ==
    engines[i].width = container[1] /\ engines[i].height = container[2]

\* C15: no tick runs with a width or height different from the container's
\* current size: whenever a frame callback runs a tick of engine i, the
\* engine's dimensions are those of the container at that moment.
C15_TicksUseContainerSize ==
    [][\A i \in DOMAIN engines \cap DOMAIN engines' :
          (last'.op = "animate" /\ last'.inst = i
                /\ engines'[i].particles # engines[i].particles)
             => SizedAsContainer(i)]_vars

\* what the code does provide: when the window fires "resize", the handler
\* takes the container's size and builds the pool anew (no particle has been
\* through a tick)
C15_ResizeEventRecomputes ==
    [][\A i \in DOMAIN engines \cap DOMAIN engines' :
          (last'.op = "handleResize" /\ last'.inst = i /\ engines'[i] # engines[i])
             => /\ engines'[i].width = container[1]
                /\ engines'[i].height = container[2]
                /\ Len(engines'[i].particles) = engines[i].cfg.particleCount
                /\ \A k \in DOMAIN engines'[i].particles :
                      /\ engines'[i].particles[k].age = 0
                      /\ ~engines'[i].obs[k].called]_vars

\* the ticks C16 is about: update() ran at speed 0 with the pointer out of
\* range on a particle that was moving, and did not recycle it
Damped ==
    {q \in Updated :
        /\ q.speed = 0
        /\ ~q.obs.hit
        /\ ~q.obs.recycled
        /\ (q.obs.before.vx # 0 \/ q.obs.before.vy # 0)}

\* v1 is v0 * 0.95, up to the truncation of the fixed-point representation
DampedComponent(v0, v1) ==
    /\ 100 * Abs(v1) <= 95 * Abs(v0)
    /\ 100 * Abs(v1) > 95 * Abs(v0) - 100
    /\ v0 > 0 => v1 >= 0
    /\ v0 < 0 => v1 <= 0
    /\ v0 # 0 => Abs(v1) < Abs(v0)

\* C16: with speed 0 and the pointer out of range, a tick adds nothing to a
\* moving particle's velocity and multiplies both components by 0.95: the
\* particle moves by its old velocity, each nonzero component gets strictly
\* smaller in magnitude (by the factor 0.95, hence geometrically toward 0)
\* and none changes sign.
C16_Damping ==
    \A q \in Damped :
        /\ q.obs.fx = 0 /\ q.obs.fy = 0 /\ q.obs.ix = 0 /\ q.obs.iy = 0
        /\ q.obs.prewrap.x = q.obs.before.x + q.obs.before.vx
        /\ q.obs.prewrap.y = q.obs.before.y + q.obs.before.vy
        /\ DampedComponent(q.obs.before.vx, q.p.vx)
        /\ DampedComponent(q.obs.before.vy, q.p.vy)

\* a particle pushed by the pointer has been damped, after the pointer left,
\* for a second tick at least and is still moving
C16_Witness ==
    \E q \in Damped :
        /\ q.obs.mouse = Sentinel
        /\ q.p.vx # 0
        /\ q.p.age >= 4

\* calls is one full pass over n particles: the wash, then update and draw
\* for each particle, then the scheduling of the next tick
FullPass(calls, n) ==
    /\ Len(calls) = 2 * n + 2
    /\ calls[1] = "fillRect"
    /\ \A k \in 1..n : calls[2 * k] = "update" /\ calls[2 * k + 1] = "draw"
    /\ calls[2 * n + 2] = "requestAnimationFrame"

LoopRunning ==
    {f \in pending : f.inst = cur} = {[id |-> engines[cur].animationFrameId, inst |-> cur]}

\* C18, safety: from its start until its teardown an engine has exactly one
\* frame callback pending (every completed tick has scheduled the next), and
\* that callback can run;
\* a resize or pointer event leaves the pending callbacks and the engine's
\* animationFrameId as they are; and the pending callbacks disappear only in
\* a teardown (the effect's cleanup).
C18_LoopKeptRunning ==
    /\ [](cur # 0 => LoopRunning /\ TickEnabled)
    /\ [][last'.op \in {"handleResize", "handleMouseMove", "handleMouseLeave"} =>
             /\ pending' = pending
             /\ \A i \in DOMAIN engines \cap DOMAIN engines' :
                   engines'[i].animationFrameId = engines[i].animationFrameId]_vars
    /\ [][(pending # {} /\ pending' = {}) => (last'.op = "cleanup" /\ cur' = 0)]_vars

\* C18: while the engine is running and not torn down, every completed tick
\* leaves exactly one frame callback pending, so that, the host calling every
\* callback that stays scheduled, ticks occur infinitely often unless the
\* engine is torn down again and again or for good; only a teardown stops the
\* loop, a resize or pointer event neither stops nor restarts it.
C18_TicksForever ==
    /\ C18_LoopKeptRunning
    /\ ([]<>(cur = 0) \/ []<><<TickStep>>_vars)

\* an engine has run a whole particle life of ticks, through a resize, and is
\* still scheduled
C18_Witness ==
    /\ cur # 0
    /\ last.op = "animate"
    /\ LoopRunning
    /\ \E k \in DOMAIN engines[cur].particles : engines[cur].obs[k].recycled
    /\ ~SizedAsContainer(cur)

\* C19: during a tick a particle is replaced only by recycling, which resets
\* it in place.  A particle the tick recycled (its incremented age exceeded
\* its lifespan) ends the tick with age 0, velocity (0,0), a position in
\* [0,width) x [0,height) of the engine's current dimensions, which the wrap
\* step leaves alone, and a new lifespan in [100,300); a particle the tick did
\* not recycle is the same particle one step on (same lifespan, age + 1,
\* position advanced by its velocity); and the pool keeps its size.
C19_RecycleInPlace ==
    /\ \A q \in Updated :
          LET b == q.obs.before
          IN  /\ q.obs.recycled <=> (b.age + 1) * Scale > b.life
              /\ q.obs.recycled =>
                    /\ q.p.age = 0
                    /\ q.p.vx = 0 /\ q.p.vy = 0
                    /\ 0 <= q.p.x /\ q.p.x < q.width * Scale
                    /\ 0 <= q.p.y /\ q.p.y < q.height * Scale
                    /\ q.p = q.obs.prewrap
                    /\ LifeMin <= q.p.life /\ q.p.life < LifeSup
              /\ ~q.obs.recycled =>
                    /\ q.p.life = b.life
                    /\ q.p.age = b.age + 1
                    /\ q.obs.prewrap.x = b.x + b.vx + q.obs.fx + q.obs.ix
                    /\ q.obs.prewrap.y = b.y + b.vy + q.obs.fy + q.obs.iy
    /\ \A i \in DOMAIN engines :
          /\ Len(engines[i].particles) = engines[i].cfg.particleCount
          /\ \A k \in DOMAIN engines[i].particles :
                engines[i].obs[k].called => engines[i].obs[k].before.life >= LifeMin

\* a tick has recycled both particles of a pool: they were moving, and one
\* of them has been given a position off the origin
C19_Witness ==
    /\ last.op = "animate"
    /\ cur # 0
    /\ Len(engines[cur].particles) = 2
    /\ \A k \in 1..2 : engines[cur].obs[k].called /\ engines[cur].obs[k].recycled
    /\ \E k \in 1..2 : engines[cur].obs[k].before.vx # 0
    /\ \E k \in 1..2 : engines[cur].particles[k].x > 0

C20_ReachedDefaultRatio ==
    /\ cur # 0
    /\ last.op = "handleResize"
    /\ host.dpr = 0
    /\ canvas.scale = 1

\* C21: the opacity every draw() computes, 1 - |age/life - 0.5| * 2, lies in
\* [0,1]; it is 0 for a particle drawn in the tick that recycled it (age 0);
\* and no particle is drawn with an age above its lifespan.
C21_AlphaRange ==
    \A q \in Updated :
        /\ 0 <= q.obs.alpha /\ q.obs.alpha <= Scale
        /\ q.obs.alpha = Alpha(q.p.age, q.p.life)
        /\ q.p.age * Scale <= q.p.life
        /\ q.obs.recycled => q.p.age = 0 /\ q.obs.alpha = 0

\* a particle has been drawn, invisible, in the tick that recycled it
C21_Witness ==
    \E q \in Updated : q.obs.recycled /\ q.obs.alpha = 0 /\ q.obs.before.age >= LifeBase

\* a particle has been drawn near mid-life with more than half opacity, and
\* one in its last tick before recycling
C21_ReachedMidLife ==
    \E q \in Updated : ~q.obs.recycled /\ 2 * q.obs.alpha > Scale

C21_ReachedLastTick ==
    \E q \in Updated : ~q.obs.recycled /\ (q.p.age + 1) * Scale > q.p.life

\* the distance a particle travelled in its latest update(), per axis
StepX(o) == o.before.vx + o.fx + o.ix
StepY(o) == o.before.vy + o.fy + o.iy

\* C22: at the end of every tick and after every resize every particle's
\* position satisfies 0 <= x <= width and 0 <= y <= height for the engine's
\* current dimensions, also after a resize that shrank the surface and for a
\* particle that moves by more than a surface width in one tick.
C22_PositionInSurface ==
    \A q \in Particles :
        /\ 0 <= q.p.x /\ q.p.x <= q.width * Scale
        /\ 0 <= q.p.y /\ q.p.y <= q.height * Scale

\* a particle has moved by more than the surface's width in one tick, left
\* the surface and been wrapped back onto it
C22_Witness ==
    \E q \in Updated :
        /\ Abs(StepX(q.obs)) > q.width * Scale
        /\ (q.obs.prewrap.x < 0 \/ q.obs.prewrap.x > q.width * Scale)
        /\ 0 <= q.p.x /\ q.p.x <= q.width * Scale

\* floor(L) + 1 for a lifespan L
RecycleAge(life) == life \div Scale + 1

\* C23, safety: a particle's age counts the ticks since it was created or
\* recycled, and a particle with lifespan L is recycled in the tick in which
\* its age reaches floor(L) + 1, not earlier: that is its 101st tick at the
\* earliest and its 300th at the latest.
C23_RecycledAtLifeEnd ==
    \A q \in Updated :
        LET b == q.obs.before
        IN  /\ b.age + 1 <= RecycleAge(b.life)
            /\ q.obs.recycled <=> b.age + 1 = RecycleAge(b.life)
            /\ q.obs.recycled =>
                  /\ LifeBase + 1 <= b.age + 1
                  /\ b.age + 1 <= LifeBase + LifeSpread
            /\ ~q.obs.recycled => q.p.age = b.age + 1 /\ q.p.life = b.life

\* C23: a particle with lifespan L is recycled in the tick in which its age
\* reaches floor(L) + 1, between its 101st and its 300th tick; hence, while
\* the loop keeps ticking, the engine's particle is new again and again
\* (recycled, or replaced by a resize), unless the engine is torn down.
C23_NoParticleLivesForever ==
    /\ []C23_RecycledAtLifeEnd
    /\ \/ []<>(cur = 0)
       \/ []<>(cur # 0 /\ \A k \in DOMAIN engines[cur].particles :
                              engines[cur].particles[k].age = 0)

\* a particle with a lifespan in the upper half of [100,300) has been
\* recycled, in the tick in which its age reached floor(L) + 1
C23_Witness ==
    \E q \in Updated :
        /\ q.obs.recycled
        /\ q.obs.before.life > (LifeBase + LifeSpread \div 2) * Scale
        /\ q.obs.before.age + 1 = RecycleAge(q.obs.before.life)
        /\ q.obs.before.age + 1 > LifeBase + LifeSpread \div 2

\* a particle with the shortest lifespan, 100, has been recycled in its 101st
\* tick
C23_ReachedShortest ==
    \E q \in Updated :
        /\ q.obs.recycled
        /\ q.obs.before.life = LifeMin
        /\ q.obs.before.age = LifeBase

\* |v|^2 < (3.8 * speed)^2 and |v|^2 <= (3.8 * speed)^2 for a velocity
\* (vx, vy), and the same for a step against 4 * speed
BelowSpeedBound(vx, vy, speed) == 100 * (vx * vx + vy * vy) < (38 * speed * Scale) * (38 * speed * Scale)
WithinSpeedBound(vx, vy, speed) == 100 * (vx * vx + vy * vy) <= (38 * speed * Scale) * (38 * speed * Scale)
BelowStepBound(sx, sy, speed) == sx * sx + sy * sy < (4 * speed * Scale) * (4 * speed * Scale)
WithinStepBound(sx, sy, speed) == sx * sx + sy * sy <= (4 * speed * Scale) * (4 * speed * Scale)

\* C24 as stated, for engines with a positive speed: after every tick in
\* which the pointer was out of range of a particle, the particle's velocity
\* is below 3.8 x speed and the step it made below 4 x speed.
C24_BoundedOutOfRange ==
    \A q \in Updated :
        (q.speed > 0 /\ ~q.obs.hit /\ ~q.obs.recycled) =>
            /\ BelowSpeedBound(q.p.vx, q.p.vy, q.speed)
            /\ BelowStepBound(StepX(q.obs), StepY(q.obs), q.speed)

\* the ticks C24 is about: the pointer was out of range of the particle, and
\* the particle was not recycled
Unpushed == {q \in Updated : ~q.obs.hit /\ ~q.obs.recycled}

\* C24, amended: a tick with the pointer out of range keeps a particle's speed
\* within 3.8 x speed if it was within it (as it is at creation and after
\* recycling, where the velocity is zero), and the step of such a tick is
\* within 4 x speed; both strictly below when speed > 0 and the velocity
\* was strictly below before.  A particle the pointer has pushed beyond
\* 3.8 x speed is not below it at once when the pointer gets out of range:
\* its speed then decreases from tick to tick.
C24_BoundPreserved ==
    \A q \in Unpushed :
        LET b == q.obs.before
        IN  /\ WithinSpeedBound(b.vx, b.vy, q.speed) =>
                  /\ WithinSpeedBound(q.p.vx, q.p.vy, q.speed)
                  /\ WithinStepBound(StepX(q.obs), StepY(q.obs), q.speed)
            /\ (q.speed > 0 /\ BelowSpeedBound(b.vx, b.vy, q.speed)) =>
                  /\ BelowSpeedBound(q.p.vx, q.p.vy, q.speed)
                  /\ BelowStepBound(StepX(q.obs), StepY(q.obs), q.speed)
            /\ ~WithinSpeedBound(b.vx, b.vy, q.speed) =>
                  q.p.vx * q.p.vx + q.p.vy * q.p.vy < b.vx * b.vx + b.vy * b.vy
            /\ b.age = 0 => b.vx = 0 /\ b.vy = 0

\* a particle the pointer never pushed is moving, within the bound, late in
\* its life
C24_Witness ==
    \E q \in Unpushed :
        /\ q.speed > 0
        /\ q.obs.mouse = Sentinel
        /\ q.p.age >= LifeBase
        /\ q.p.vx # 0
        /\ BelowSpeedBound(q.p.vx, q.p.vy, q.speed)

\* a particle pushed beyond the bound is slowing down with the pointer out
\* of range
C24_ReachedAboveBound ==
    \E q \in Unpushed :
        /\ q.speed > 0
        /\ ~WithinSpeedBound(q.obs.before.vx, q.obs.before.vy, q.speed)
        /\ ~WithinSpeedBound(q.p.vx, q.p.vy, q.speed)

\* ================================================== FileUpload and the page
\* Strings the code takes apart are sequences of characters.
MaxPicks == 2

MaxFileSize == 10 * 1024 * 1024

\* String.prototype.toLowerCase, on the letters that occur
toLowerCase(s) ==
    [i \in DOMAIN s |->
        CASE s[i] = "W" -> "w" [] s[i] = "A" -> "a" [] s[i] = "V" -> "v"
          [] s[i] = "M" -> "m" [] s[i] = "P" -> "p" [] OTHER -> s[i]]

\* String.prototype.includes
includes(s, t) ==
    \E i \in 0..(Len(s) - Len(t)) : SubSeq(s, i + 1, i + Len(t)) = t

\* s.split(".").pop(): what follows the last "." of s, all of s without one
splitPop(s) ==
    IF \A i \in DOMAIN s : s[i] # "." THEN s
    ELSE LET i == CHOOSE j \in DOMAIN s : s[j] = "." /\ \A k \in (j + 1)..Len(s) : s[k] # "."
         IN SubSeq(s, i + 1, Len(s))

validTypes ==
    { <<"a","u","d","i","o","/","w","a","v">>,
      <<"a","u","d","i","o","/","m","p","e","g">>,
      <<"a","u","d","i","o","/","m","p","3">>,
      <<"a","u","d","i","o","/","x","-","m","4","a">>,
      <<"a","u","d","i","o","/","x","-","w","a","v">> }

validExtensions == { <<".","w","a","v">>, <<".","m","p","3">>, <<".","m","4","a">> }

\* const fileExtension = "." + file.name.split(".").pop()?.toLowerCase()
fileExtension(file) == <<".">> \o toLowerCase(splitPop(file.name))

isValidType(file) ==
    \/ \E type \in validTypes : includes(file.type, type)
    \/ fileExtension(file) \in validExtensions

\* the files a user can drop or choose: [name, type, size, body]
FileSet ==
    { [name |-> <<"a",".","o","g","g">>, type |-> <<"a","u","d","i","o","/","m","p","e","g">>,
       size |-> 1, body |-> "mpeg"],
      [name |-> <<"b",".","M","4","A">>, type |-> <<>>,
       size |-> MaxFileSize, body |-> "m4a"],
      [name |-> <<"c",".","t","x","t">>, type |-> <<"t","e","x","t","/","p","l","a","i","n">>,
       size |-> 1, body |-> "text"],
      [name |-> <<"d",".","w","a","v">>, type |-> <<"a","u","d","i","o","/","x","-","w","a","v">>,
       size |-> MaxFileSize + 1, body |-> "long"],
      [name |-> <<"m","p","3">>, type |-> <<>>,
       size |-> 1, body |-> "bare"] }

\* the languages the page's select is switched between
LanguageSet == {"English", "Tamil"}

\* reader.readAsDataURL(file) gives "data:<type>;base64,<body in base64>"
readAsDataURL(file) == <<"data:", file.type, ";base64", ",", file.body>>

\* result.split(",")[1]
base64(result) ==
    LET i == CHOOSE j \in DOMAIN result : result[j] = "," /\ \A k \in 1..(j - 1) : result[k] # ","
    IN result[i + 1]

\* validateAndProcessFile(file), on the component's record
validateAndProcessFile(fu, file) ==
    LET id == fu.picks + 1
        cleared == [fu EXCEPT !.picks = id, !.picked = file, !.error = Null]
    IN IF ~isValidType(file)
       THEN [cleared EXCEPT !.error = "Please upload a valid audio file (WAV, MP3)"]
       ELSE IF file.size > MaxFileSize
       THEN [cleared EXCEPT !.error = "File size must be less than 10MB"]
       ELSE [cleared EXCEPT !.fileName = file.name,
                            !.shown = id,
                            !.readers = @ \cup {[id |-> id, file |-> file]}]

\* Home.handleFileSelect up to its await: the request is in flight
handleFileSelect(h, id, audioBase64, filename) ==
    [h EXCEPT !.loading = TRUE,
              !.error = Null,
              !.result = NullResponse,
              !.requests = @ \cup {[id |-> id, audio |-> audioBase64,
                                    language |-> h.language]}]

\* the engine stays as it is before it is mounted
EngineIdle ==
    /\ InitLife
    /\ props = [color |-> "#6366f1", trailOpacity |-> 15, particleCount |-> 1, speed |-> 1]
    /\ container = <<200, 100>>

\* handleDrop and handleChange: the user hands files[0] to the component,
\* which takes no pointer events and disables its input while isLoading
SelectFile ==
    /\ ~home.loading
    /\ fileUpload.picks < MaxPicks
    /\ \E file \in FileSet : fileUpload' = validateAndProcessFile(fileUpload, file)
    /\ last' = [op |-> "validateAndProcessFile", inst |-> fileUpload.picks + 1, calls |-> <<>>]
    /\ UNCHANGED <<home, recorder, voice>>
    /\ UNCHANGED engineVars

\* reader.onload: a FileReader finished and the component calls onFileSelect,
\* which is the page's handleFileSelect
ReaderLoad ==
    \E r \in fileUpload.readers :
        /\ fileUpload' = [fileUpload EXCEPT
              !.readers = @ \ {r},
              !.calls = Append(@, [id |-> r.id, file |-> r.file,
                                   audioBase64 |-> base64(readAsDataURL(r.file)),
                                   filename |-> r.file.name])]
        /\ home' = handleFileSelect(home, r.id, base64(readAsDataURL(r.file)), r.file.name)
        /\ last' = [op |-> "onload", inst |-> r.id, calls |-> <<"onFileSelect">>]
        /\ UNCHANGED <<recorder, voice>>
        /\ UNCHANGED engineVars

\* reader.onerror
ReaderError ==
    \E r \in fileUpload.readers :
        /\ fileUpload' = [fileUpload EXCEPT !.readers = @ \ {r},
                                             !.error = "Failed to read file"]
        /\ last' = [op |-> "onerror", inst |-> r.id, calls |-> <<>>]
        /\ UNCHANGED <<home, recorder, voice>>
        /\ UNCHANGED engineVars

\* clearFile: the "Remove file" button, rendered while a file name is shown
ClearFile ==
    /\ ~home.loading
    /\ fileUpload.fileName # NullName
    /\ fileUpload' = [fileUpload EXCEPT !.fileName = NullName,
                                         !.error = Null,
                                         !.shown = 0,
                                         !.removed = @ \cup {fileUpload.shown}]
    /\ last' = [op |-> "clearFile", inst |-> fileUpload.shown, calls |-> <<>>]
    /\ UNCHANGED <<home, recorder, voice>>
    /\ UNCHANGED engineVars

\* detectAudio resolved: setResult(response), finally setLoading(false)
DetectionResolves ==
    \E q \in home.requests :
        /\ home' = [home EXCEPT !.requests = @ \ {q},
                                 !.result = [id |-> q.id, audio |-> q.audio,
                                             language |-> q.language],
                                 !.loading = FALSE]
        /\ last' = [op |-> "handleFileSelect", inst |-> q.id, calls |-> <<"setResult">>]
        /\ UNCHANGED <<fileUpload, recorder, voice>>
        /\ UNCHANGED engineVars

\* detectAudio threw: setError(err.message || ...), finally setLoading(false)
DetectionRejects ==
    \E q \in home.requests :
        /\ home' = [home EXCEPT !.requests = @ \ {q},
                                 !.error = "Failed to analyze audio",
                                 !.loading = FALSE]
        /\ last' = [op |-> "handleFileSelect", inst |-> q.id, calls |-> <<"setError">>]
        /\ UNCHANGED <<fileUpload, recorder, voice>>
        /\ UNCHANGED engineVars

\* the language select, disabled while loading
SetLanguage ==
    /\ ~home.loading
    /\ \E l \in LanguageSet : l # home.language /\ home' = [home EXCEPT !.language = l]
    /\ last' = [op |-> "setLanguage", inst |-> 0, calls |-> <<>>]
    /\ UNCHANGED <<fileUpload, recorder, voice>>
    /\ UNCHANGED engineVars

NextUpload ==
    \/ SelectFile
    \/ ReaderLoad
    \/ ReaderError
    \/ ClearFile
    \/ DetectionResolves
    \/ DetectionRejects
    \/ SetLanguage

SpecUpload == EngineIdle /\ [][NextUpload]_vars

\* ------------------------------------------------------------- claim C25
\* the accepted audio types by name, and the extension of a file name: what
\* follows its last ".", when it has one
AcceptedExtensions == { <<"w","a","v">>, <<"m","p","3">>, <<"m","4","a">> }

HasAcceptedExtension(file) ==
    \E i \in DOMAIN file.name :
        /\ file.name[i] = "."
        /\ toLowerCase(SubSeq(file.name, i + 1, Len(file.name))) \in AcceptedExtensions

AcceptedAudio(file) == file.type \in validTypes \/ HasAcceptedExtension(file)

Acceptable(file) == AcceptedAudio(file) /\ file.size <= MaxFileSize

\* a step in which validateAndProcessFile ran
Validated == last'.op = "validateAndProcessFile"

\* the step left the component as it was but for its error message
RejectedCleanly ==
    /\ fileUpload'.error # Null
    /\ fileUpload'.fileName = fileUpload.fileName
    /\ fileUpload'.readers = fileUpload.readers
    /\ fileUpload'.calls = fileUpload.calls
    /\ home' = home

\* C25: onFileSelect is called only for a file whose MIME type or extension is
\* an accepted audio type (wav, mp3, m4a) and whose size is at most 10 MiB; a
\* file that is not gets an error message, no onFileSelect call, and the file
\* name shown before stays.
C25_OnlyAcceptableFiles ==
    [][/\ \A k \in DOMAIN fileUpload'.calls : Acceptable(fileUpload'.calls[k].file)
       /\ (Validated /\ ~Acceptable(fileUpload'.picked)) => RejectedCleanly]_vars

\* C25, what the code does: the same with the test the code applies, which also
\* takes a type that contains an accepted one and a whole dotless name as the
\* extension
C25_OnlyFilesPassingTheTest ==
    [][/\ \A k \in DOMAIN fileUpload'.calls :
             /\ isValidType(fileUpload'.calls[k].file)
             /\ fileUpload'.calls[k].file.size <= MaxFileSize
       /\ (Validated /\ ~(isValidType(fileUpload'.picked)
                          /\ fileUpload'.picked.size <= MaxFileSize)) => RejectedCleanly]_vars

\* a file named "mp3", with no extension and no type, was handed to onFileSelect
C25_Reached ==
    \E k \in DOMAIN fileUpload.calls :
        /\ ~AcceptedAudio(fileUpload.calls[k].file)
        /\ home.requests # {}

\* a rejected file left the name of an earlier file shown, with an error
C25_ReachedRejection ==
    /\ last.op = "validateAndProcessFile"
    /\ ~isValidType(fileUpload.picked)
    /\ fileUpload.fileName # NullName
    /\ fileUpload.error # Null

\* a file of exactly 10 MiB was handed to onFileSelect, one byte more was not
C25_ReachedSizeLimit ==
    /\ \E k \in DOMAIN fileUpload.calls : fileUpload.calls[k].file.size = MaxFileSize
    /\ last.op = "validateAndProcessFile"
    /\ fileUpload.picked.size = MaxFileSize + 1
    /\ fileUpload.error = "File size must be less than 10MB"

\* ------------------------------------------------------------- claim C27
Max(S) == CHOOSE n \in S : \A m \in S : m <= n

\* the files handed to onFileSelect, by pick; the most recently selected one
Submitted == {fileUpload.calls[k].id : k \in DOMAIN fileUpload.calls}

MostRecent == Max(Submitted)

\* nothing is being read and no request is in flight
Settled == home.requests = {} /\ fileUpload.readers = {}

\* C27: loading is true whenever a detection request started by
\* handleFileSelect is in flight; once all requests have completed, loading is
\* false, at most one of result and error is set, and the result shown belongs
\* to the most recently selected file.
C27_LoadingCoversRequests ==
    /\ home.requests # {} => home.loading
    /\ Settled => /\ ~home.loading
                  /\ home.result = NullResponse \/ home.error = Null
                  /\ home.result # NullResponse => home.result.id = MostRecent

\* a request is still in flight and the page shows no loading state
C27_Reached ==
    /\ home.requests # {}
    /\ ~home.loading
    /\ last.op = "handleFileSelect"

\* everything completed and the page shows a result and an error
C27_ReachedBoth ==
    /\ Settled
    /\ home.result # NullResponse
    /\ home.error # Null

\* everything completed and the result shown is of the file selected first
C27_ReachedStale ==
    /\ Settled
    /\ home.result # NullResponse
    /\ home.result.id < MostRecent

\* C27, what holds: a request of the page's only selection so far keeps
\* loading true, and once it has completed loading is false and exactly one of
\* result and error is set.
C27_SingleSelection ==
    Len(fileUpload.calls) = 1 =>
        /\ home.requests # {} => home.loading /\ home.result = NullResponse /\ home.error = Null
        /\ home.requests = {} => /\ ~home.loading
                                 /\ (home.result = NullResponse) # (home.error = Null)
                                 /\ home.result # NullResponse => home.result.id = MostRecent

\* ------------------------------------------------------------- claim C28
\* C28: once the user has removed the selected file with clearFile,
\* onFileSelect is not called for that file, also when the read that started
\* before the removal completes after it.
C28_NoCallAfterRemoval ==
    [][\A k \in DOMAIN fileUpload'.calls \ DOMAIN fileUpload.calls :
          fileUpload'.calls[k].id \notin fileUpload.removed]_vars

\* the read of a removed file completed and onFileSelect was called for it
C28_Reached ==
    /\ last.op = "onload"
    /\ last.inst \in fileUpload.removed
    /\ \E q \in home.requests : q.id = last.inst
    /\ fileUpload.fileName = NullName

\* C28, what holds: the removal clears the name and the error shown, and the
\* reads in flight go on.
C28_RemovalClearsDisplay ==
    [][last'.op = "clearFile" =>
          /\ fileUpload'.fileName = NullName
          /\ fileUpload'.error = Null
          /\ fileUpload'.readers = fileUpload.readers
          /\ fileUpload'.calls = fileUpload.calls]_vars

\* ========================================================= useAudioRecorder
MaxStarts == 2

MicrophoneError == "Could not access microphone. Please allow permissions."

\* startRecording up to its await: setError(null), chunksRef.current = [],
\* getUserMedia is asked
startRecording(rec) ==
    [rec EXCEPT !.error = Null, !.chunks = 0, !.asking = @ + 1, !.starts = @ + 1]

\* startRecording after its await, when nothing throws: a MediaRecorder is
\* created, kept in the ref and started, then setIsRecording(true)
startResolved(rec) ==
    LET id == Len(rec.recorders) + 1
    IN [rec EXCEPT !.asking = @ - 1,
                   !.recorders = Append(@, [state |-> "recording", started |-> TRUE,
                                            onstop |-> FALSE, stopEvent |-> FALSE]),
                   !.mediaRecorderRef = id,
                   !.isRecording = TRUE,
                   !.owner = IF rec.isRecording THEN @ ELSE id]

\* a variant catch block that also resets the flag
catchStartResets(rec) == [rec EXCEPT !.error = MicrophoneError, !.isRecording = FALSE]

\* the catch block of startRecording
catchStart(rec) == [rec EXCEPT !.error = MicrophoneError]

\* startRecording after its await, when mediaRecorder.start() throws: the ref
\* already holds the recorder, which stays inactive
startThrew(rec) ==
    catchStart([rec EXCEPT !.asking = @ - 1,
                           !.recorders = Append(@, [state |-> "inactive", started |-> FALSE,
                                                    onstop |-> FALSE, stopEvent |-> FALSE]),
                           !.mediaRecorderRef = Len(rec.recorders) + 1])

\* getUserMedia rejected, or new MediaRecorder(stream) threw
startFailed(rec) == catchStart([rec EXCEPT !.asking = @ - 1])

\* the test of stopRecording: !mediaRecorder || mediaRecorder.state === "inactive"
NoActiveRecording(rec) ==
    \/ rec.mediaRecorderRef = 0
    \/ rec.recorders[rec.mediaRecorderRef].state = "inactive"

\* stopRecording with an active recorder: mediaRecorder.onstop = ...;
\* mediaRecorder.stop(), which inactivates the recorder and queues its
\* dataavailable and stop events
stopRecording(rec) ==
    [rec EXCEPT !.recorders[rec.mediaRecorderRef].state = "inactive",
                !.recorders[rec.mediaRecorderRef].onstop = TRUE,
                !.recorders[rec.mediaRecorderRef].stopEvent = TRUE]

\* ondataavailable: if (event.data.size > 0) chunksRef.current.push(event.data)
ondataavailable(rec, size) ==
    IF size > 0 THEN [rec EXCEPT !.chunks = @ + 1] ELSE rec

\* mediaRecorder.onstop: the chunks go to a FileReader, the tracks are stopped,
\* setIsRecording(false)
onstop(rec) == [rec EXCEPT !.converting = @ + 1, !.isRecording = FALSE]

\* a caller calls startRecording()
StartRecording ==
    /\ recorder.starts < MaxStarts
    /\ recorder' = startRecording(recorder)
    /\ last' = [op |-> "startRecording", inst |-> 0, calls |-> <<"getUserMedia">>]
    /\ UNCHANGED <<fileUpload, home, voice>>
    /\ UNCHANGED engineVars

\* getUserMedia resolved and the recorder started
MicrophoneGranted ==
    /\ recorder.asking > 0
    /\ recorder' = startResolved(recorder)
    /\ last' = [op |-> "startRecording.resume", inst |-> Len(recorder.recorders) + 1,
                calls |-> <<"start", "setIsRecording">>]
    /\ UNCHANGED <<fileUpload, home, voice>>
    /\ UNCHANGED engineVars

\* getUserMedia resolved and mediaRecorder.start() threw
RecorderStartThrows ==
    /\ recorder.asking > 0
    /\ recorder' = startThrew(recorder)
    /\ last' = [op |-> "startRecording.catch", inst |-> Len(recorder.recorders) + 1,
                calls |-> <<"start", "setError">>]
    /\ UNCHANGED <<fileUpload, home, voice>>
    /\ UNCHANGED engineVars

\* getUserMedia rejected (or the MediaRecorder constructor threw)
MicrophoneDenied ==
    /\ recorder.asking > 0
    /\ recorder' = startFailed(recorder)
    /\ last' = [op |-> "startRecording.catch", inst |-> 0, calls |-> <<"setError">>]
    /\ UNCHANGED <<fileUpload, home, voice>>
    /\ UNCHANGED engineVars

\* a caller calls stopRecording()
StopRecording ==
    /\ IF NoActiveRecording(recorder)
       THEN /\ recorder' = recorder
            /\ last' = [op |-> "stopRecording", inst |-> recorder.mediaRecorderRef,
                        calls |-> <<"reject: No active recording">>]
       ELSE /\ recorder' = stopRecording(recorder)
            /\ last' = [op |-> "stopRecording", inst |-> recorder.mediaRecorderRef,
                        calls |-> <<"stop">>]
    /\ UNCHANGED <<fileUpload, home, voice>>
    /\ UNCHANGED engineVars

\* the tracks of a recorder's stream end (the microphone is unplugged, the
\* permission is revoked): the recorder inactivates itself and queues its events
TrackEnds ==
    \E i \in DOMAIN recorder.recorders :
        /\ recorder.recorders[i].state = "recording"
        /\ recorder' = [recorder EXCEPT !.recorders[i].state = "inactive",
                                         !.recorders[i].stopEvent = TRUE]
        /\ last' = [op |-> "ended", inst |-> i, calls |-> <<>>]
        /\ UNCHANGED <<fileUpload, home, voice>>
        /\ UNCHANGED engineVars

\* the queued events of an inactivated recorder fire: dataavailable, then stop
StopEvent ==
    \E i \in DOMAIN recorder.recorders, size \in {0, 1} :
        /\ recorder.recorders[i].stopEvent
        /\ LET fired == [recorder EXCEPT !.recorders[i].stopEvent = FALSE]
               pushed == ondataavailable(fired, size)
           IN IF recorder.recorders[i].onstop
              THEN /\ recorder' = onstop(pushed)
                   /\ last' = [op |-> "onstop", inst |-> i,
                               calls |-> <<"readAsDataURL", "stop", "setIsRecording">>]
              ELSE /\ recorder' = pushed
                   /\ last' = [op |-> "stop", inst |-> i, calls |-> <<>>]
        /\ UNCHANGED <<fileUpload, home, voice>>
        /\ UNCHANGED engineVars

\* the FileReader of a recording ends: onloadend resolves the promise, onerror
\* rejects it
RecordingRead ==
    /\ recorder.converting > 0
    /\ recorder' = [recorder EXCEPT !.converting = @ - 1]
    /\ \E outcome \in {"resolve", "reject: Failed to convert audio to Base64"} :
          last' = [op |-> "onloadend", inst |-> 0, calls |-> <<outcome>>]
    /\ UNCHANGED <<fileUpload, home, voice>>
    /\ UNCHANGED engineVars

NextRecorder ==
    \/ StartRecording
    \/ MicrophoneGranted
    \/ RecorderStartThrows
    \/ MicrophoneDenied
    \/ StopRecording
    \/ TrackEnds
    \/ StopEvent
    \/ RecordingRead

SpecRecorder == EngineIdle /\ [][NextRecorder]_vars

\* ------------------------------------------------------------- claim C26
\* a stopRecording call that found no recorder, or an inactive one
StopRefused == last'.op = "stopRecording" /\ NoActiveRecording(recorder)

\* a startRecording call that ended in its catch block; one that did not get
\* the microphone
StartCaught == last'.op = "startRecording.catch"

StartDenied == StartCaught /\ last'.inst = 0

TurnsOn == ~recorder.isRecording /\ recorder'.isRecording

TurnsOff == recorder.isRecording /\ ~recorder'.isRecording

\* isRecording turns true in the step that started a recorder
OnByStart ==
    TurnsOn => /\ last'.op = "startRecording.resume"
               /\ recorder'.recorders[last'.inst].state = "recording"

C26_ReachedWhileRecording ==
    /\ last.op = "startRecording.catch"
    /\ recorder.isRecording
    /\ \E i \in DOMAIN recorder.recorders : recorder.recorders[i].state = "recording"

\* stopRecording was refused for a recorder that had stopped by itself
C26_ReachedRefusal ==
    /\ last = [op |-> "stopRecording", inst |-> recorder.mediaRecorderRef,
               calls |-> <<"reject: No active recording">>]
    /\ recorder.mediaRecorderRef # 0
    /\ recorder.isRecording

\* the stop event of the second of two recorders turned isRecording false
\* while the first goes on recording
C26_ReachedSecondStopped ==
    /\ last.op = "onstop"
    /\ ~recorder.isRecording
    /\ last.inst # recorder.owner
    /\ recorder.recorders[recorder.owner].state = "recording"

\* ============================================================= AIVoiceInput
MaxEvents == 4
MaxHalves == 4

\* const submitted = externalIsRecording !== undefined ? externalIsRecording : internalSubmitted
submitted(v) == IF v.controlled THEN v.external ELSE v.internalSubmitted

\* the calls of the props, as the handlers make them
onStartCall == [fn |-> "onStart", arg |-> 0]
onStopCall(time) == [fn |-> "onStop", arg |-> time]

\* the cleanup of the timer effect: clearInterval(intervalId)
clearInterval(v) ==
    [v EXCEPT !.timers = {t \in @ : t.id # v.intervalId}, !.intervalId = 0]

\* the timer effect: onStart and a one-second interval when submitted,
\* setTime(0) otherwise; [v, calls]
timerEffect(v) ==
    IF submitted(v)
    THEN [v |-> [v EXCEPT !.made = @ + 1,
                          !.intervalId = v.made + 1,
                          !.timers = @ \cup {[id |-> v.made + 1, phase |-> 0]}],
          calls |-> IF v.internalSubmitted THEN <<onStartCall>> ELSE <<>>]
    ELSE [v |-> [v EXCEPT !.time = 0], calls |-> <<>>]

\* the dependencies of the timer effect: [submitted, internalSubmitted, onStart]
timerDeps(v) == <<submitted(v), v.internalSubmitted, v.onStart>>

\* the cleanup of the demo effect: clearTimeout(timeoutId), clearTimeout(initialTimeout)
clearDemo(v) == [v EXCEPT !.demoTimer = "none"]

\* the demo effect: if (!isDemo) return; setTimeout(runAnimation, 100)
demoEffect(v) == IF v.isDemo THEN [v EXCEPT !.demoTimer = "initial"] ELSE v

\* React renders the component after its state or props went from old to new,
\* the handler having made the calls given: the effects whose dependencies
\* changed run their cleanup and run again; [v, calls]
commit(old, new, calls) ==
    LET counted == [new EXCEPT !.events = @ + 1,
                               !.elapsed = IF ~submitted(old) /\ submitted(new) THEN 0 ELSE @]
        demo == IF old.isDemo # new.isDemo THEN demoEffect(clearDemo(counted)) ELSE counted
    IN IF timerDeps(old) # timerDeps(new)
       THEN LET r == timerEffect(clearInterval(demo))
            IN [v |-> r.v, calls |-> calls \o r.calls]
       ELSE [v |-> demo, calls |-> calls]

\* handleClick, up to its state updates: [v, calls]
handleClick(v) ==
    IF v.isDemo
    THEN [v |-> [v EXCEPT !.isDemo = FALSE, !.internalSubmitted = FALSE], calls |-> <<>>]
    ELSE [v |-> IF v.controlled THEN v ELSE [v EXCEPT !.internalSubmitted = ~@],
          calls |-> IF submitted(v) THEN <<onStopCall(v.time)>> ELSE <<onStartCall>>]

\* the widgets other than this one, and the engine, stay as they are
VoiceOnly ==
    /\ UNCHANGED <<fileUpload, home, recorder>>
    /\ UNCHANGED engineVars

\* React mounts the component with its props and runs the three effects
VoiceMount ==
    /\ voice = VoiceInit
    /\ \E controlled \in BOOLEAN, external \in BOOLEAN, demoMode \in BOOLEAN :
          /\ ~controlled => ~external
          /\ LET rendered == [VoiceInit EXCEPT !.mounted = TRUE,
                                               !.controlled = controlled,
                                               !.external = external,
                                               !.isDemo = demoMode,
                                               !.isClient = TRUE]
                 r == timerEffect(demoEffect(rendered))
             IN /\ voice' = r.v
                /\ last' = [op |-> "mount", inst |-> 0, calls |-> r.calls]
    /\ VoiceOnly

\* React unmounts the component and runs the cleanups
VoiceUnmount ==
    /\ voice.mounted
    /\ voice' = [clearDemo(clearInterval(voice)) EXCEPT !.mounted = FALSE]
    /\ last' = [op |-> "unmount", inst |-> 0, calls |-> <<>>]
    /\ VoiceOnly

\* the user clicks the button
Click ==
    /\ voice.mounted
    /\ voice.events < MaxEvents
    /\ LET h == handleClick(voice)
           r == commit(voice, h.v, h.calls)
       IN /\ voice' = r.v
          /\ last' = [op |-> "handleClick", inst |-> 0, calls |-> r.calls]
    /\ VoiceOnly

\* the parent changes the isRecording prop it passes
ParentSetsRecording ==
    /\ voice.mounted
    /\ voice.controlled
    /\ voice.events < MaxEvents
    /\ LET r == commit(voice, [voice EXCEPT !.external = ~@], <<>>)
       IN /\ voice' = r.v
          /\ last' = [op |-> "isRecording", inst |-> 0, calls |-> r.calls]
    /\ VoiceOnly

\* the parent renders again and passes another function as onStart
ParentChangesOnStart ==
    /\ voice.mounted
    /\ voice.events < MaxEvents
    /\ LET r == commit(voice, [voice EXCEPT !.onStart = 1 - @], <<>>)
       IN /\ voice' = r.v
          /\ last' = [op |-> "onStart", inst |-> 0, calls |-> r.calls]
    /\ VoiceOnly

\* a demo timeout fires: runAnimation sets internalSubmitted and schedules its
\* reset, the reset schedules runAnimation again
DemoTimeout ==
    /\ voice.mounted
    /\ voice.demoTimer # "none"
    /\ voice.events < MaxEvents
    /\ LET next == IF voice.demoTimer = "stop"
                   THEN [voice EXCEPT !.internalSubmitted = FALSE, !.demoTimer = "restart"]
                   ELSE [voice EXCEPT !.internalSubmitted = TRUE, !.demoTimer = "stop"]
           r == commit(voice, next, <<>>)
       IN /\ voice' = r.v
          /\ last' = [op |-> "runAnimation", inst |-> 0, calls |-> r.calls]
    /\ VoiceOnly

\* half a second passes: an interval in its second half fires setTime(t => t + 1)
HalfSecond ==
    /\ voice.mounted
    /\ voice.clock < MaxHalves
    /\ voice' = [voice EXCEPT
          !.clock = @ + 1,
          !.elapsed = IF submitted(voice) THEN @ + 1 ELSE @,
          !.time = @ + Cardinality({t \in voice.timers : t.phase = 1}),
          !.timers = {[id |-> t.id, phase |-> 1 - t.phase] : t \in @}]
    /\ last' = [op |-> "interval", inst |-> 0, calls |-> <<>>]
    /\ VoiceOnly

NextVoice ==
    \/ VoiceMount
    \/ VoiceUnmount
    \/ Click
    \/ ParentSetsRecording
    \/ ParentChangesOnStart
    \/ DemoTimeout
    \/ HalfSecond

SpecVoice == EngineIdle /\ [][NextVoice]_vars

\* ------------------------------------------------------------- claim C29
\* how many times a step called the prop fn
Count(calls, fn) == Cardinality({k \in DOMAIN calls : calls[k].fn = fn})

\* a click outside demo mode, while not recording and while recording
StartClick == last'.op = "handleClick" /\ ~voice.isDemo /\ ~submitted(voice)

StopClick == last'.op = "handleClick" /\ ~voice.isDemo /\ submitted(voice)

\* whole seconds since submitted turned true
Seconds(v) == v.elapsed \div 2

\* the counter is 0 while not recording, outside demo mode
CounterAtRest(v) == (v.mounted /\ ~v.isDemo /\ ~submitted(v)) => v.time = 0

\* at most one interval is running
OneInterval(v) == Cardinality(v.timers) <= 1

\* C29: outside demo mode, a click that starts recording invokes onStart
\* exactly once and a click that stops it invokes onStop exactly once, with the
\* seconds elapsed since the start; the counter is 0 whenever recording is not
\* active, and at most one one-second interval is active at any time.
C29_OnceEachClick ==
    [][/\ StartClick => Count(last'.calls, "onStart") = 1
       /\ StopClick => /\ Count(last'.calls, "onStop") = 1
                       /\ \A k \in DOMAIN last'.calls :
                             last'.calls[k].fn = "onStop" => last'.calls[k].arg = Seconds(voice)
       /\ CounterAtRest(voice')
       /\ OneInterval(voice')]_vars

\* C29, the start clicks alone
C29_StartOnce == [][StartClick => Count(last'.calls, "onStart") = 1]_vars

\* C29, the stop clicks alone
C29_StopWithSeconds ==
    [][StopClick => \A k \in DOMAIN last'.calls :
                       last'.calls[k].fn = "onStop" => last'.calls[k].arg = Seconds(voice)]_vars

\* C29, what holds: a start click invokes onStart once when the isRecording
\* prop is given and twice when it is not (handleClick, then the timer effect);
\* a stop click invokes onStop once, with the counter shown; the counter is 0
\* while not recording and at most one interval is running.
C29_ClicksAndTimer ==
    [][/\ StartClick => Count(last'.calls, "onStart") = IF voice.controlled THEN 1 ELSE 2
       /\ StopClick => last'.calls = <<onStopCall(voice.time)>>
       /\ CounterAtRest(voice')
       /\ OneInterval(voice')]_vars

\* a click started recording with the component's own state and onStart was
\* invoked twice
C29_Reached ==
    /\ last.op = "handleClick"
    /\ ~voice.controlled
    /\ voice.internalSubmitted
    /\ last.calls = <<onStartCall, onStartCall>>
    /\ Cardinality(voice.timers) = 1

\* a click stopped a recording of more than a second: onStop got less
C29_ReachedShortCount ==
    /\ last.op = "handleClick"
    /\ \E k \in DOMAIN last.calls :
          last.calls[k].fn = "onStop" /\ last.calls[k].arg < Seconds(voice)

\* a click stopped a recording after a whole second, onStop got 1 and the
\* counter is back at 0
C29_ReachedStop ==
    /\ last = [op |-> "handleClick", inst |-> 0, calls |-> <<onStopCall(1)>>]
    /\ voice.time = 0
    /\ voice.timers = {}

====
